---- MODULE Spec2Model ----
(***************************************************************************)
(* Model of the update-install orchestrator, electron/main/updater.ts:     *)
(* class AppUpdater and the IPC handlers of registerUpdateHandlers.        *)
(*                                                                         *)
(* The program runs on one event-loop thread, so every handler, timer      *)
(* callback and promise continuation is one atomic action.  The fields of  *)
(* AppUpdater are variables of the same name.  The Node runtime is part of *)
(* the state: the armed setInterval timers (intervals), the pending        *)
(* staging setTimeout timers in firing order (fallbackTimers), the         *)
(* once-listeners registered on the native updater (readyListeners) and    *)
(* the pending safety timers (safetyTimers).  A timer is named by a        *)
(* positive number; Null (0) is the null reference.                        *)
(*                                                                         *)
(* Two facts of the timer queue are kept: staging timeouts have the same   *)
(* delay, so they fire in the order they were set; and a staging timeout   *)
(* (minutes) set while a countdown (seconds) is running is due after that  *)
(* countdown's last tick (blocked).                                        *)
(***************************************************************************)
EXTENDS Integers, Sequences, FiniteSets

\* ------------------------------------------------------------------ bounds

\* update-downloaded events the external updater emits in one run
MaxDownloaded == 2
\* checkForUpdates() calls made in one run
MaxChecks == 2
\* update:install requests made in one run
MaxInstallRequests == 1
\* downloadUpdate() calls in flight at one time
MaxDownloadCalls == 2
\* length of the version strings enumerated
MaxVersionLen == 5
\* length, in words and separators, of the error texts enumerated
MaxTextLen == 3
\* stderr lines passed to the startup-recovery heuristics
MaxLines == 2
\* startFlow() calls of the DeviceOAuthManager
MaxFlows == 2

\* ------------------------------------------------------- program constants

AUTO_INSTALL_DELAY_SECONDS == 5

Null == 0

DevModeMessage == "Update check skipped (dev mode - app is not packaged)"

\* messages of the failures the external updater can raise or emit
FailureMessages == {"net::ERR_FAILED", "sha512 checksum mismatch"}

\* ------------------------------------------------------------------- state

VARIABLES
    platform,               \* process.platform: "darwin" (two-phase) or "other"
    autoDownload,           \* autoUpdater.autoDownload
    mainWindow,             \* "null", "live" or "destroyed"
    status,                 \* this.status, an UpdateStatus
    autoInstallTimer,       \* this.autoInstallTimer
    autoInstallCountdown,   \* this.autoInstallCountdown
    nativeSquirrelReady,    \* this.nativeSquirrelReady
    squirrelFallbackTimer,  \* this.squirrelFallbackTimer
    autoInstallCancelled,   \* this.autoInstallCancelled
    intervals,              \* armed setInterval timers
    fallbackTimers,         \* pending staging timeouts, oldest first
    readyListeners,         \* once('update-downloaded') listeners, oldest first
    quitCalls,              \* calls of autoUpdater.quitAndInstall() so far
    safetyTimers,           \* pending safety timeouts of quitAndInstall()
    terminated,             \* the process has exited
    checks,                 \* checkForUpdates() calls in flight, by caller
    downloads,              \* downloadUpdate() calls in flight, by caller
    version,                \* app.getVersion(), a sequence of characters
    autoUpdaterChannel,     \* autoUpdater.channel, a sequence of characters
    sent,                   \* sendToRenderer calls of the last step, in order
    ret,                    \* what the call completed by the last step gave its caller
    startupError,           \* gateway startup recovery: the startupError argument
    startupStderrLines,     \* ... the startupStderrLines argument
    alreadyAttempted,       \* ... the alreadyAttempted argument
    repairDecision,         \* ... what shouldAttemptConfigAutoRepair returned
                            \* ("true" or "false", "none" before the call)
    oauth,                  \* the DeviceOAuthManager: its fields (active,
                            \* activeProvider, currentTimeout, mainWindow), its
                            \* flows and what its last step did
    blocked,                \* staging timeouts set while the armed interval was
                            \* already running: they are due after its last tick
    \* observation of the run (read by the properties only)
    nDownloaded,            \* update-downloaded events handled
    nChecks,                \* checkForUpdates() calls started
    nInstallRequests,       \* update:install requests handled
    autoInstalls,           \* quitAndInstall() calls made by countdown ticks
    instanceInstalls,       \* ... by the countdown instance started last
    published,              \* seconds >= 0 published by that instance, in order
    cancelledCountdown,     \* cancelAutoInstall() stopped a running countdown and
                            \* no update-downloaded event has come since
    cancelledWait,          \* the same, for a pending staging wait
    everCancelled,          \* cancelAutoInstall() has been called
    overlapped,             \* a staging wait was armed while another was pending
    manualCycle,            \* the last update-downloaded event was handled with
                            \* auto-download disabled
    latestFallbackFired,    \* the fallback of the latest cycle's wait has fired,
                            \* uncancelled and before any native-ready signal
    cycleStarts,            \* countdown starts since the last update-downloaded event
    callTransitions         \* terminal status transitions since the checkForUpdates()
                            \* call in flight, or just ended, was invoked: "zero",
                            \* "one" or "many"; "uncounted" for a call made while
                            \* another was in flight, and outside a call

coreVars == <<platform, autoDownload, mainWindow, status, autoInstallTimer,
              autoInstallCountdown, nativeSquirrelReady, squirrelFallbackTimer,
              autoInstallCancelled, intervals, fallbackTimers, readyListeners,
              quitCalls, safetyTimers, terminated, checks, downloads, version,
              autoUpdaterChannel, sent, ret, blocked, startupError,
              startupStderrLines, alreadyAttempted, repairDecision, oauth>>

obsVars == <<nDownloaded, nChecks, nInstallRequests, autoInstalls,
             instanceInstalls, published, cancelledCountdown, cancelledWait,
             everCancelled, overlapped, manualCycle, latestFallbackFired,
             cycleStarts,
             callTransitions>>

vars == <<coreVars, obsVars>>

\* ----------------------------------------------------------------- helpers

StatusTags == {"idle", "checking", "available", "not-available",
               "downloading", "downloaded", "error"}

\* A field of UpdateStatus that is not set holds "none".
IdleStatus == [status |-> "idle", info |-> "none", progress |-> "none", error |-> "none"]

Remove(seq, x) == SelectSeq(seq, LAMBDA y: y # x)

Range(seq) == {seq[i] : i \in DOMAIN seq}

\* The object state the methods read and write, as one record, so that a
\* method is a function from the state before to the state after.
This == [status |-> status,
         autoInstallTimer |-> autoInstallTimer,
         autoInstallCountdown |-> autoInstallCountdown,
         nativeSquirrelReady |-> nativeSquirrelReady,
         squirrelFallbackTimer |-> squirrelFallbackTimer,
         autoInstallCancelled |-> autoInstallCancelled,
         intervals |-> intervals,
         fallbackTimers |-> fallbackTimers,
         readyListeners |-> readyListeners,
         quitCalls |-> quitCalls,
         safetyTimers |-> safetyTimers,
         sent |-> <<>>]

\* ------------------------------------------------------------ detectChannel

\* A string is the sequence of its characters.  The characters of the
\* versions modelled, and the ones of them that [a-zA-Z] matches.
Letters == {"a", "b", "e", "h", "l", "p", "s", "t"}

Digits == {"0", "1", "8"}

Latest == <<"l", "a", "t", "e", "s", "t">>

\* the version of the running application, when it is not the input
AppVersion == <<"1", ".", "0", ".", "0">>

\* [a-zA-Z]+ is greedy: the last index of the run of letters that starts at
\* i (i - 1 if v[i] is no letter).
RECURSIVE LettersEnd(_, _)
LettersEnd(v, i) ==
    IF i <= Len(v) /\ v[i] \in Letters THEN LettersEnd(v, i + 1) ELSE i - 1

\* A match: the captured group and the index of its last character.
NoMatch == [found |-> FALSE, group |-> <<>>, last |-> 0]

\* version.match(/-([a-zA-Z]+)/), the start positions i, i + 1, ... tried in
\* order: the leftmost match wins.
RECURSIVE Match(_, _)
Match(v, i) ==
    IF i > Len(v) THEN NoMatch
    ELSE IF v[i] = "-" /\ LettersEnd(v, i + 1) > i
         THEN [found |-> TRUE, group |-> SubSeq(v, i + 1, LettersEnd(v, i + 1)),
               last |-> LettersEnd(v, i + 1)]
         ELSE Match(v, i + 1)

\* detectChannel that takes a label only when ".<digit>" follows it.
detectChannel_needsNumber(v) ==
    LET match == Match(v, 1)
        e == match.last
    IN  IF match.found /\ e + 2 <= Len(v) /\ v[e + 1] = "." /\ v[e + 2] \in Digits
        THEN match.group ELSE Latest

detectChannel(v) ==
    LET match == Match(v, 1)
    IN  IF match.found THEN match.group ELSE Latest

\* --------------------------------------------- gateway/startup-recovery.ts

\* A text is a sequence of atoms: a phrase of a pattern (in some letter
\* case), the parts of the fourth pattern, a space, or some other word.
Phrases == {"Invalid config", "config invalid", "Unrecognized key"}

Command == "openclaw doctor --fix"

Atoms == Phrases \cup {"Run", ":", Command, " ", "word"}

\* The atom begins and ends with a word character (\w).
IsWord(a) == a \notin {" ", ":"}

\* \b before t[i] and after t[j], for atoms that are words.
BoundaryBefore(t, i) == i = 1 \/ ~IsWord(t[i - 1])

BoundaryAfter(t, j) == j = Len(t) \/ ~IsWord(t[j + 1])

\* /\binvalid config\b/i, /\bconfig invalid\b/i, /\bunrecognized key\b/i
TestPhrase(t) ==
    \E i \in 1..Len(t) :
        t[i] \in Phrases /\ BoundaryBefore(t, i) /\ BoundaryAfter(t, i)

\* /\brun:\s*openclaw doctor --fix\b/i
TestRunFix(t) ==
    \E i, j \in 1..Len(t) :
        /\ i + 1 < j
        /\ t[i] = "Run" /\ BoundaryBefore(t, i)
        /\ t[i + 1] = ":"
        /\ \A k \in (i + 2)..(j - 1) : t[k] = " "
        /\ t[j] = Command /\ BoundaryAfter(t, j)

\* value.trim()
RECURSIVE normalizeLogLine(_)
normalizeLogLine(value) ==
    IF value = <<>> THEN value
    ELSE IF Head(value) = " " THEN normalizeLogLine(Tail(value))
    ELSE IF value[Len(value)] = " "
         THEN normalizeLogLine(SubSeq(value, 1, Len(value) - 1))
    ELSE value

isInvalidConfigSignal(text) ==
    LET normalized == normalizeLogLine(text)
    IN  IF normalized = <<>> THEN FALSE
        ELSE TestPhrase(normalized) \/ TestRunFix(normalized)

\* `${startupError.name}: ${startupError.message}` for an Error, and
\* String(startupError ?? '') for a string or null.
ErrorText(error) ==
    IF error.kind = "Error"
    THEN error.name \o <<":", " ">> \o error.message
    ELSE IF error.kind = "string" THEN error.text
    ELSE <<>>

\* The lines are tried in order, then the text of the error.
RECURSIVE hasInvalidConfigFailureSignal(_, _)
hasInvalidConfigFailureSignal(error, lines) ==
    IF lines # <<>>
    THEN IF isInvalidConfigSignal(Head(lines)) THEN TRUE
         ELSE hasInvalidConfigFailureSignal(error, Tail(lines))
    ELSE isInvalidConfigSignal(ErrorText(error))

\* shouldAttemptConfigAutoRepair without the alreadyAttempted guard.
shouldAttemptConfigAutoRepair_everyTime(error, lines, attempted) ==
    hasInvalidConfigFailureSignal(error, lines)

shouldAttemptConfigAutoRepair(error, lines, attempted) ==
    IF attempted THEN FALSE
    ELSE hasInvalidConfigFailureSignal(error, lines)

\* ------------------------------------------------- utils/device-oauth.ts

OAuthProviders == {"minimax-portal", "qwen-portal"}

\* What one step of the DeviceOAuthManager did, and for which flow (0: none).
NoStep == [op |-> "none", flow |-> 0, polled |-> FALSE, scheduled |-> FALSE,
           saved |-> FALSE, success |-> FALSE, error |-> FALSE, delivered |-> FALSE]

\* [DeviceOAuth] a flow is one startFlow() call: where it stands, and whether
\* it has been stopped or superseded since.
\* pc: "requesting" (the device code is awaited), "timer" (a poll is
\* scheduled), "polling" (a token poll is in flight), "saving" (onSuccess
\* awaits the storage), "done".
NewFlow(provider) == [provider |-> provider, pc |-> "requesting", inert |-> FALSE]

\* The flows that have not ended are now stopped or superseded.
MarkInert(o) ==
    [o EXCEPT !.flows = [f \in DOMAIN o.flows |->
                            IF o.flows[f].pc # "done"
                            THEN [o.flows[f] EXCEPT !.inert = TRUE]
                            ELSE o.flows[f]]]

\* clearTimeout(handle): the timer of flow f goes away if it is still pending.
clearTimeout(o, f) ==
    IF f \in DOMAIN o.flows /\ o.flows[f].pc = "timer"
    THEN [o EXCEPT !.flows[f].pc = "done"]
    ELSE o

stopFlow(o) ==
    LET o1 == [o EXCEPT !.active = FALSE, !.activeProvider = "none"]
    IN  IF o1.currentTimeout # Null
        THEN [clearTimeout(o1, o1.currentTimeout) EXCEPT !.currentTimeout = Null]
        ELSE o1

\* startFlow() up to the await of the device-code request.
startFlow(o, provider) ==
    LET o1 == IF o.active THEN stopFlow(o) ELSE o
        o2 == MarkInert(o1)
    IN  [o2 EXCEPT !.active = TRUE, !.activeProvider = provider,
                   !.flows = Append(@, NewFlow(provider))]

\* handleMiniMaxFlow / handleQwenFlow once the device code has arrived:
\* emitCode, then setTimeout(poll).
handleFlowResume(o, f) ==
    [o EXCEPT !.currentTimeout = f, !.flows[f].pc = "timer",
              !.last = [NoStep EXCEPT !.op = "code", !.flow = f, !.scheduled = TRUE]]

\* The catch branch of startFlow: the device-code request failed.
startFlowCatch(o, f) ==
    [o EXCEPT !.active = FALSE, !.activeProvider = "none", !.flows[f].pc = "done",
              !.last = [NoStep EXCEPT !.op = "code", !.flow = f, !.error = TRUE,
                                      !.delivered = o.mainWindow = "live"]]

\* poll, from the timer firing to the await of the token request.
poll(o, f, expired) ==
    IF ~o.active \/ o.activeProvider # o.flows[f].provider
    THEN [o EXCEPT !.flows[f].pc = "done",
                   !.last = [NoStep EXCEPT !.op = "poll", !.flow = f]]
    ELSE IF expired
    THEN [o EXCEPT !.active = FALSE, !.flows[f].pc = "done",
                   !.last = [NoStep EXCEPT !.op = "poll", !.flow = f, !.error = TRUE,
                                           !.delivered = o.mainWindow = "live"]]
    ELSE [o EXCEPT !.flows[f].pc = "polling",
                   !.last = [NoStep EXCEPT !.op = "poll", !.flow = f, !.polled = TRUE]]

\* onSuccess up to its first await: the token is saved for the gateway.
onSuccess(o, f) ==
    [o EXCEPT !.active = FALSE, !.activeProvider = "none", !.flows[f].pc = "saving",
              !.last = [NoStep EXCEPT !.op = "poll-result", !.flow = f, !.saved = TRUE]]

\* onSuccess from the storage having saved the provider: oauth:success.
onSuccessResume(o, f) ==
    [o EXCEPT !.flows[f].pc = "done",
              !.last = [NoStep EXCEPT !.op = "saved", !.flow = f, !.success = TRUE,
                                      !.delivered = o.mainWindow = "live"]]

\* poll, from the token request settling.
\* result: "success", "error" or "pending".
pollResume(o, f, result) ==
    IF result = "success" THEN onSuccess(o, f)
    ELSE IF result = "error"
    THEN [o EXCEPT !.active = FALSE, !.flows[f].pc = "done",
                   !.last = [NoStep EXCEPT !.op = "poll-result", !.flow = f,
                                           !.error = TRUE,
                                           !.delivered = o.mainWindow = "live"]]
    ELSE [o EXCEPT !.currentTimeout = f, !.flows[f].pc = "timer",
                   !.last = [NoStep EXCEPT !.op = "poll-result", !.flow = f,
                                           !.scheduled = TRUE]]

\* ----------------------------------------------------------------- methods

\* sendToRenderer(channel, data): the call is recorded; the message reaches
\* the renderer only when the window is set and not destroyed.
sendToRenderer(s, channel, data) ==
    [s EXCEPT !.sent = Append(@, [channel |-> channel, data |-> data,
                                  delivered |-> mainWindow = "live"])]

\* { ...this.status, ...newStatus }: newStatus is a record of the fields given.
Merge(old, newStatus) ==
    [f \in DOMAIN old |-> IF f \in DOMAIN newStatus THEN newStatus[f] ELSE old[f]]

\* updateStatus() that publishes the partial it was given, not the merged
\* status.
updateStatus_publishesPartial(s, newStatus) ==
    LET s1 == [s EXCEPT !.status = Merge(@, newStatus)]
    IN  sendToRenderer(s1, "update:status-changed", Merge(IdleStatus, newStatus))

updateStatus(s, newStatus) ==
    LET s1 == [s EXCEPT !.status = Merge(@, newStatus)]
    IN  sendToRenderer(s1, "update:status-changed", s1.status)

clearAutoInstallTimer(s) ==
    IF s.autoInstallTimer # Null
    THEN [s EXCEPT !.intervals = @ \ {s.autoInstallTimer}, !.autoInstallTimer = Null]
    ELSE s

clearSquirrelFallbackTimer(s) ==
    IF s.squirrelFallbackTimer # Null
    THEN [s EXCEPT !.fallbackTimers = Remove(@, s.squirrelFallbackTimer),
                   !.squirrelFallbackTimer = Null]
    ELSE s

\* The data of an update:auto-install-countdown event.  A tick carries no
\* `cancelled` key; the absent key is FALSE here.
CountdownEvent(seconds, cancelled) == [seconds |-> seconds, cancelled |-> cancelled]

\* quitAndInstall() that arms the safety timeout on every call.
quitAndInstall_alwaysArms(s) ==
    [s EXCEPT !.quitCalls = @ + 1, !.safetyTimers = @ + 1]

\* quitAndInstall() that never arms the safety timeout.
quitAndInstall_neverArms(s) ==
    [s EXCEPT !.quitCalls = @ + 1]

quitAndInstall(s) ==
    LET s1 == [s EXCEPT !.quitCalls = @ + 1]
    IN  IF platform = "darwin" /\ ~s.nativeSquirrelReady
        THEN [s1 EXCEPT !.safetyTimers = @ + 1]
        ELSE s1

\* A tick that installs at zero but leaves its interval armed.
countdownTick_keepsTicking(s) ==
    LET s1 == [s EXCEPT !.autoInstallCountdown = @ - 1]
        s2 == sendToRenderer(s1, "update:auto-install-countdown",
                             CountdownEvent(s1.autoInstallCountdown, FALSE))
    IN  IF s2.autoInstallCountdown <= 0 THEN quitAndInstall(s2) ELSE s2

\* The callback given to setInterval by startAutoInstallCountdown.
countdownTick(s) ==
    LET s1 == [s EXCEPT !.autoInstallCountdown = @ - 1]
        s2 == sendToRenderer(s1, "update:auto-install-countdown",
                             CountdownEvent(s1.autoInstallCountdown, FALSE))
    IN  IF s2.autoInstallCountdown <= 0
        THEN quitAndInstall(clearAutoInstallTimer(s2))
        ELSE s2

\* setInterval returns a timer that is not one of the armed ones.
NewInterval(s) == CHOOSE i \in 1..(Cardinality(s.intervals) + 1) : i \notin s.intervals

startAutoInstallCountdown(s) ==
    LET s1 == clearAutoInstallTimer(s)
        s2 == [s1 EXCEPT !.autoInstallCountdown = AUTO_INSTALL_DELAY_SECONDS]
        s3 == sendToRenderer(s2, "update:auto-install-countdown",
                             CountdownEvent(s2.autoInstallCountdown, FALSE))
        t  == NewInterval(s3)
    IN  [s3 EXCEPT !.autoInstallTimer = t, !.intervals = @ \cup {t}]

\* onReady that does not look at autoInstallCancelled.
onReady_ignoresCancel(s) ==
    startAutoInstallCountdown(clearSquirrelFallbackTimer(s))

\* onReady, the once-listener of waitForSquirrelThenAutoInstall.
onReady(s) ==
    LET s1 == clearSquirrelFallbackTimer(s)
    IN  IF s1.autoInstallCancelled THEN s1 ELSE startAutoInstallCountdown(s1)

\* A fallback callback that reports the staging timeout as an error and
\* gives up.
fallbackCallback_reportsError(s, w) ==
    LET s1 == [s EXCEPT !.squirrelFallbackTimer = Null,
                        !.readyListeners = Remove(@, w)]
    IN  IF s1.autoInstallCancelled THEN s1
        ELSE updateStatus(s1, [status |-> "error", error |-> "staging timeout"])

\* A fallback callback that only forgets the wait.
fallbackCallback_givesUp(s, w) ==
    [s EXCEPT !.squirrelFallbackTimer = Null, !.readyListeners = Remove(@, w)]

\* The callback given to setTimeout by waitForSquirrelThenAutoInstall, for
\* the wait w (the timer has fired: it is pending no more).
fallbackCallback(s, w) ==
    LET s1 == [s EXCEPT !.squirrelFallbackTimer = Null,
                        !.readyListeners = Remove(@, w)]
    IN  IF s1.autoInstallCancelled THEN s1
        ELSE IF s1.autoInstallTimer = Null THEN startAutoInstallCountdown(s1)
        ELSE s1

\* w names the wait: its once-listener and its timeout.
waitForSquirrelThenAutoInstall(s, w) ==
    [s EXCEPT !.autoInstallCancelled = FALSE,
              !.readyListeners = Append(@, w),
              !.squirrelFallbackTimer = w,
              !.fallbackTimers = Append(@, w)]

\* cancelAutoInstall() that leaves the interval armed.
cancelAutoInstall_keepsInterval(s) ==
    LET s1 == [s EXCEPT !.autoInstallCancelled = TRUE]
        s2 == clearSquirrelFallbackTimer(s1)
    IN  sendToRenderer(s2, "update:auto-install-countdown", CountdownEvent(-1, TRUE))

\* cancelAutoInstall() that publishes the expiry value as its sentinel.
cancelAutoInstall_zeroSentinel(s) ==
    LET s1 == [s EXCEPT !.autoInstallCancelled = TRUE]
        s2 == clearSquirrelFallbackTimer(s1)
        s3 == clearAutoInstallTimer(s2)
    IN  sendToRenderer(s3, "update:auto-install-countdown", CountdownEvent(0, FALSE))

cancelAutoInstall(s) ==
    LET s1 == [s EXCEPT !.autoInstallCancelled = TRUE]
        s2 == clearSquirrelFallbackTimer(s1)
        s3 == clearAutoInstallTimer(s2)
    IN  sendToRenderer(s3, "update:auto-install-countdown", CountdownEvent(-1, TRUE))

\* The native updater emits update-downloaded: the constructor's listener
\* runs first, then every once-listener registered, oldest first, each
\* removed before it is called.
RECURSIVE RunReadyListeners(_, _)
RunReadyListeners(s, n) ==
    IF n = 0 THEN s ELSE RunReadyListeners(onReady(s), n - 1)

nativeUpdateDownloaded(s) ==
    LET s1 == [s EXCEPT !.nativeSquirrelReady = TRUE, !.readyListeners = <<>>]
    IN  RunReadyListeners(s1, Len(s.readyListeners))

\* An update-downloaded handler that takes staging to start over with every
\* update downloaded.
onUpdateDownloaded_resetsReady(s, w) ==
    LET s1 == updateStatus([s EXCEPT !.nativeSquirrelReady = FALSE],
                           [status |-> "downloaded", info |-> "info"])
    IN  IF autoDownload
        THEN IF platform = "darwin"
             THEN waitForSquirrelThenAutoInstall(s1, w)
             ELSE startAutoInstallCountdown(s1)
        ELSE s1

\* An update-downloaded handler that waits for staging on every platform.
onUpdateDownloaded_alwaysWaits(s, w) ==
    LET s1 == updateStatus(s, [status |-> "downloaded", info |-> "info"])
    IN  IF autoDownload
        THEN IF ~s1.nativeSquirrelReady
             THEN waitForSquirrelThenAutoInstall(s1, w)
             ELSE startAutoInstallCountdown(s1)
        ELSE s1

\* The update-downloaded handler of setupListeners; w names the staging
\* wait, should the handler start one.
onUpdateDownloaded(s, w) ==
    LET s1 == updateStatus(s, [status |-> "downloaded", info |-> "info"])
    IN  IF autoDownload
        THEN IF platform = "darwin" /\ ~s1.nativeSquirrelReady
             THEN waitForSquirrelThenAutoInstall(s1, w)
             ELSE startAutoInstallCountdown(s1)
        ELSE s1

\* checkForUpdates() that takes a null result for "no update".
checkForUpdatesResume_nullIsNoUpdate(s, outcome) ==
    IF outcome \in {"null", "result"}
    THEN IF s.status.status \in {"checking", "idle"}
         THEN updateStatus(s, [status |-> "not-available"])
         ELSE s
    ELSE updateStatus(s, [status |-> "error", error |-> outcome])

\* checkForUpdates() that raises a failure of its own in place of the one
\* the external check raised.
checkForUpdatesReturn_wrapsFailure(outcome) ==
    IF outcome = "null" THEN [raised |-> FALSE, value |-> "null"]
    ELSE IF outcome = "result" THEN [raised |-> FALSE, value |-> "updateInfo"]
    ELSE [raised |-> TRUE, value |-> "Update check failed"]

\* checkForUpdates() that forces not-available after every result.
checkForUpdatesResume_alwaysForces(s, outcome) ==
    IF outcome = "null"
    THEN updateStatus(s, [status |-> "error", error |-> DevModeMessage])
    ELSE IF outcome = "result"
    THEN updateStatus(s, [status |-> "not-available"])
    ELSE updateStatus(s, [status |-> "error", error |-> outcome])

\* checkForUpdates() without its safety net.
checkForUpdatesResume_noSafetyNet(s, outcome) ==
    IF outcome = "null"
    THEN updateStatus(s, [status |-> "error", error |-> DevModeMessage])
    ELSE IF outcome = "result" THEN s
    ELSE updateStatus(s, [status |-> "error", error |-> outcome])

\* checkForUpdates() from the point where the awaited external call settles.
\* outcome: "null", "result" or a failure message (the external call raised).
checkForUpdatesResume(s, outcome) ==
    IF outcome = "null"
    THEN updateStatus(s, [status |-> "error", error |-> DevModeMessage])
    ELSE IF outcome = "result"
    THEN IF s.status.status \in {"checking", "idle"}
         THEN updateStatus(s, [status |-> "not-available"])
         ELSE s
    ELSE updateStatus(s, [status |-> "error", error |-> outcome])

\* What checkForUpdates() gives its caller.
checkForUpdatesReturn(outcome) ==
    IF outcome = "null" THEN [raised |-> FALSE, value |-> "null"]
    ELSE IF outcome = "result" THEN [raised |-> FALSE, value |-> "updateInfo"]
    ELSE [raised |-> TRUE, value |-> outcome]

\* The update:check handler of registerUpdateHandlers, given what
\* checkForUpdates() gave it and the state it left.
updateCheckHandler(s, r) ==
    IF r.raised
    THEN [rejected |-> FALSE, success |-> FALSE, status |-> s.status]
    ELSE [rejected |-> FALSE, success |-> TRUE, status |-> s.status]

\* downloadUpdate() that records a failure in the status, as
\* checkForUpdates() does.
downloadUpdateResume_mirrorsError(s, outcome) ==
    IF outcome = "done" THEN s
    ELSE updateStatus(s, [status |-> "error", error |-> outcome])

\* downloadUpdate() from the point where the awaited external call settles:
\* it logs a failure and touches no field.
\* outcome: "done" or a failure message (the external call raised).
downloadUpdateResume(s, outcome) == s

\* What downloadUpdate() gives its caller.
downloadUpdateReturn(outcome) ==
    IF outcome = "done" THEN [raised |-> FALSE, value |-> "void"]
    ELSE [raised |-> TRUE, value |-> outcome]

\* The update:download handler of registerUpdateHandlers, given what
\* downloadUpdate() gave it.
updateDownloadHandler(r) ==
    IF r.raised
    THEN [rejected |-> FALSE, success |-> FALSE, error |-> <<"Error: ", r.value>>]
    ELSE [rejected |-> FALSE, success |-> TRUE, error |-> "none"]

\* ------------------------------------------------------------- observation

IsCountdown(e) == e.channel = "update:auto-install-countdown"

\* The indices of the countdown starts among the calls s made: only
\* startAutoInstallCountdown publishes the full delay.
StartsIn(log) ==
    {i \in DOMAIN log : IsCountdown(log[i])
                        /\ log[i].data.seconds = AUTO_INSTALL_DELAY_SECONDS}

\* The seconds >= 0 published by the countdown instance started last.
RECURSIVE PublishedAfter(_, _)
PublishedAfter(pub, log) ==
    IF log = <<>> THEN pub
    ELSE LET e == Head(log)
         IN  PublishedAfter(
                 IF ~IsCountdown(e) \/ e.data.seconds < 0 THEN pub
                 ELSE IF e.data.seconds = AUTO_INSTALL_DELAY_SECONDS
                      THEN <<e.data.seconds>>
                      ELSE Append(pub, e.data.seconds),
                 Tail(log))

NoReturn == [op |-> "none", caller |-> "none", external |-> "none",
             raised |-> FALSE, value |-> "none",
             reply |-> [rejected |-> FALSE, success |-> FALSE, status |-> IdleStatus]]

\* The last step ran the handler `name`, which gave its caller nothing.
Did(name) == [NoReturn EXCEPT !.op = name]

\* The step leaves the object in state s; a wait it armed is due after the
\* last tick of an interval that was already running.
Commit(s) ==
    /\ status' = s.status
    /\ autoInstallTimer' = s.autoInstallTimer
    /\ autoInstallCountdown' = s.autoInstallCountdown
    /\ nativeSquirrelReady' = s.nativeSquirrelReady
    /\ squirrelFallbackTimer' = s.squirrelFallbackTimer
    /\ autoInstallCancelled' = s.autoInstallCancelled
    /\ intervals' = s.intervals
    /\ fallbackTimers' = s.fallbackTimers
    /\ readyListeners' = s.readyListeners
    /\ quitCalls' = s.quitCalls
    /\ safetyTimers' = s.safetyTimers
    /\ sent' = s.sent
    /\ published' = PublishedAfter(published, s.sent)
    /\ blocked' = IF s.intervals # intervals \/ StartsIn(s.sent) # {} THEN {}
                  ELSE (blocked \cap Range(s.fallbackTimers))
                       \cup (IF intervals # {}
                             THEN Range(s.fallbackTimers) \ Range(fallbackTimers)
                             ELSE {})

TerminalTags == {"available", "not-available", "error"}

\* The terminal status transitions among the calls s made.
TerminalIn(log) ==
    {i \in DOMAIN log : /\ log[i].channel = "update:status-changed"
                        /\ log[i].data.status \in TerminalTags}

\* The count c after k more transitions.
Counted(c, k) ==
    IF c = "uncounted" \/ k = 0 THEN c
    ELSE IF c = "zero" /\ k = 1 THEN "one"
    ELSE "many"

\* The state of the modules other than the updater.
otherVars == <<startupError, startupStderrLines, alreadyAttempted, repairDecision,
               oauth>>

Env == <<platform, autoDownload, mainWindow, terminated, version,
        autoUpdaterChannel, otherVars>>

Counters == <<nDownloaded, nChecks, nInstallRequests>>

\* What a step that is neither an update-downloaded event, a cancellation
\* nor a fallback leaves of the observation.
ObserveOther(s, tickInstalls) ==
    /\ autoInstalls' = autoInstalls + tickInstalls
    /\ instanceInstalls' = IF StartsIn(s.sent) # {} THEN 0
                           ELSE instanceInstalls + tickInstalls
    /\ cycleStarts' = cycleStarts + Cardinality(StartsIn(s.sent))
    /\ callTransitions' = IF \E c \in DOMAIN checks : checks[c] > 0
                          THEN Counted(callTransitions, Cardinality(TerminalIn(s.sent)))
                          ELSE "uncounted"
    /\ UNCHANGED <<cancelledCountdown, cancelledWait, everCancelled, overlapped,
                   manualCycle,
                   latestFallbackFired>>

\* ----------------------------------------------------------------- actions

\* The object the constructor leaves when the application version is v.
Constructed(v) ==
    /\ platform \in {"darwin", "other"}
    /\ version = v
    /\ autoUpdaterChannel = detectChannel(v)
    /\ autoDownload = FALSE
    /\ mainWindow = "null"
    /\ status = IdleStatus
    /\ autoInstallTimer = Null
    /\ autoInstallCountdown = 0
    /\ nativeSquirrelReady = FALSE
    /\ squirrelFallbackTimer = Null
    /\ autoInstallCancelled = FALSE
    /\ intervals = {}
    /\ fallbackTimers = <<>>
    /\ readyListeners = <<>>
    /\ quitCalls = 0
    /\ safetyTimers = 0
    /\ terminated = FALSE
    /\ checks = [c \in {"ipc", "direct"} |-> 0]
    /\ downloads = [c \in {"ipc", "direct"} |-> 0]
    /\ sent = <<>>
    /\ ret = NoReturn
    /\ blocked = {}
    /\ nDownloaded = 0
    /\ nChecks = 0
    /\ nInstallRequests = 0
    /\ autoInstalls = 0
    /\ instanceInstalls = 0
    /\ published = <<>>
    /\ cancelledCountdown = FALSE
    /\ cancelledWait = FALSE
    /\ everCancelled = FALSE
    /\ overlapped = FALSE
    /\ manualCycle = FALSE
    /\ latestFallbackFired = FALSE
    /\ cycleStarts = 0
    /\ callTransitions = "uncounted"

\* No gateway startup has failed.
RecoveryIdle ==
    /\ startupError = [kind |-> "null"]
    /\ startupStderrLines = <<>>
    /\ alreadyAttempted = FALSE
    /\ repairDecision = "none"

\* The DeviceOAuthManager as constructed.
OAuthIdle ==
    oauth = [active |-> FALSE, activeProvider |-> "none", currentTimeout |-> Null,
             mainWindow |-> "none", flows |-> <<>>, last |-> NoStep]

Init == Constructed(AppVersion) /\ RecoveryIdle /\ OAuthIdle

\* registerUpdateHandlers / setMainWindow: a window is attached.
SetMainWindow ==
    /\ ~terminated
    /\ mainWindow # "live"
    /\ mainWindow' = "live"
    /\ sent' = <<>>
    /\ ret' = Did("setMainWindow")
    /\ UNCHANGED <<platform, autoDownload, terminated, status, autoInstallTimer,
                   autoInstallCountdown, nativeSquirrelReady, squirrelFallbackTimer,
                   autoInstallCancelled, intervals, fallbackTimers, readyListeners,
                   quitCalls, safetyTimers, checks, downloads, version,
                   autoUpdaterChannel, otherVars, blocked, obsVars>>

\* The window is closed: isDestroyed() answers true from now on.
WindowDestroyed ==
    /\ ~terminated
    /\ mainWindow = "live"
    /\ mainWindow' = "destroyed"
    /\ sent' = <<>>
    /\ ret' = Did("window-destroyed")
    /\ UNCHANGED <<platform, autoDownload, terminated, status, autoInstallTimer,
                   autoInstallCountdown, nativeSquirrelReady, squirrelFallbackTimer,
                   autoInstallCancelled, intervals, fallbackTimers, readyListeners,
                   quitCalls, safetyTimers, checks, downloads, version,
                   autoUpdaterChannel, otherVars, blocked, obsVars>>

SetAutoDownload(enable) ==
    /\ ~terminated
    /\ autoDownload' = enable
    /\ sent' = <<>>
    /\ ret' = Did("setAutoDownload")
    /\ UNCHANGED <<platform, mainWindow, terminated, status, autoInstallTimer,
                   autoInstallCountdown, nativeSquirrelReady, squirrelFallbackTimer,
                   autoInstallCancelled, intervals, fallbackTimers, readyListeners,
                   quitCalls, safetyTimers, checks, downloads, version,
                   autoUpdaterChannel, otherVars, blocked, obsVars>>

\* setChannel(channel), from the update:setChannel handler.
SetChannel(c) ==
    /\ ~terminated
    /\ autoUpdaterChannel' = c
    /\ sent' = <<>>
    /\ ret' = Did("setChannel")
    /\ UNCHANGED <<platform, autoDownload, mainWindow, terminated, status,
                   autoInstallTimer, autoInstallCountdown, nativeSquirrelReady,
                   squirrelFallbackTimer, autoInstallCancelled, intervals,
                   fallbackTimers, readyListeners, quitCalls, safetyTimers, checks,
                   downloads, version, otherVars, blocked, obsVars>>

\* A handler of setupListeners that only updates the status.  The events of
\* a check are emitted by autoUpdater.checkForUpdates(), which only
\* checkForUpdates() calls: they come while a call is in flight.
StatusEvent(newStatus) ==
    /\ ~terminated
    /\ Commit(updateStatus(This, newStatus))
    /\ ret' = Did("status-event")
    /\ ObserveOther(updateStatus(This, newStatus), 0)
    /\ UNCHANGED <<Env, checks, downloads, Counters>>

CheckInFlight == \E c \in DOMAIN checks : checks[c] > 0

OnCheckingForUpdate ==
    /\ CheckInFlight
    /\ StatusEvent([status |-> "checking"])

OnUpdateAvailable ==
    /\ CheckInFlight
    /\ StatusEvent([status |-> "available", info |-> "info"])

OnUpdateNotAvailable ==
    /\ CheckInFlight
    /\ StatusEvent([status |-> "not-available", info |-> "info"])

OnDownloadProgress ==
    StatusEvent([status |-> "downloading", progress |-> "progress"])

OnError ==
    \E m \in FailureMessages : StatusEvent([status |-> "error", error |-> m])

OnUpdateDownloaded ==
    /\ ~terminated
    /\ nDownloaded < MaxDownloaded
    /\ LET s == onUpdateDownloaded(This, nDownloaded + 1)
       IN  /\ Commit(s)
           /\ nDownloaded' = nDownloaded + 1
           /\ cycleStarts' = Cardinality(StartsIn(s.sent))
           /\ instanceInstalls' = IF StartsIn(s.sent) # {} THEN 0 ELSE instanceInstalls
           /\ manualCycle' = ~autoDownload
           /\ overlapped' = (overlapped \/ (Len(s.fallbackTimers) > Len(fallbackTimers)
                                            /\ fallbackTimers # <<>>))
           /\ latestFallbackFired' = FALSE
           /\ cancelledCountdown' = FALSE
           /\ cancelledWait' = FALSE
    /\ ret' = Did("update-downloaded")
    /\ UNCHANGED <<Env, checks, downloads, nChecks, nInstallRequests, autoInstalls, everCancelled,
                   callTransitions>>

\* checkForUpdates() is called and awaits autoUpdater.checkForUpdates().
CheckForUpdates(caller) ==
    /\ ~terminated
    /\ nChecks < MaxChecks
    /\ nChecks' = nChecks + 1
    /\ checks' = [checks EXCEPT ![caller] = @ + 1]
    /\ sent' = <<>>
    /\ ret' = Did("checkForUpdates-call")
    /\ callTransitions' = IF CheckInFlight THEN "uncounted" ELSE "zero"
    /\ UNCHANGED <<Env, status, autoInstallTimer, autoInstallCountdown,
                   nativeSquirrelReady, squirrelFallbackTimer, autoInstallCancelled,
                   intervals, fallbackTimers, readyListeners, quitCalls, safetyTimers,
                   downloads, blocked, nDownloaded, nInstallRequests, autoInstalls,
                   instanceInstalls, published, cancelledCountdown, cancelledWait,
                   everCancelled, overlapped, manualCycle, latestFallbackFired,
                   cycleStarts>>

\* The awaited external call settles and checkForUpdates() runs to its end;
\* for an update:check request the handler then builds its reply.
CheckSettles(caller, outcome) ==
    /\ ~terminated
    /\ checks[caller] > 0
    /\ checks' = [checks EXCEPT ![caller] = @ - 1]
    /\ LET s == checkForUpdatesResume(This, outcome)
           r == checkForUpdatesReturn(outcome)
       IN  /\ Commit(s)
           /\ ObserveOther(s, 0)
           /\ ret' = [op |-> "checkForUpdates", caller |-> caller,
                      external |-> outcome,
                      raised |-> r.raised, value |-> r.value,
                      reply |-> IF caller = "ipc" THEN updateCheckHandler(s, r)
                                ELSE NoReturn.reply]
    /\ UNCHANGED <<Env, downloads, Counters>>

DownloadsInFlight == downloads["ipc"] + downloads["direct"]

\* downloadUpdate() is called and awaits autoUpdater.downloadUpdate().
DownloadUpdate(caller) ==
    /\ ~terminated
    /\ DownloadsInFlight < MaxDownloadCalls
    /\ downloads' = [downloads EXCEPT ![caller] = @ + 1]
    /\ sent' = <<>>
    /\ ret' = Did("downloadUpdate-call")
    /\ UNCHANGED <<Env, status, autoInstallTimer, autoInstallCountdown,
                   nativeSquirrelReady, squirrelFallbackTimer, autoInstallCancelled,
                   intervals, fallbackTimers, readyListeners, quitCalls, safetyTimers,
                   checks, blocked, obsVars>>

\* The awaited external call settles and downloadUpdate() runs to its end;
\* for an update:download request the handler then builds its reply.
DownloadSettles(caller, outcome) ==
    /\ ~terminated
    /\ downloads[caller] > 0
    /\ downloads' = [downloads EXCEPT ![caller] = @ - 1]
    /\ LET s == downloadUpdateResume(This, outcome)
           r == downloadUpdateReturn(outcome)
       IN  /\ Commit(s)
           /\ ObserveOther(s, 0)
           /\ ret' = [op |-> "downloadUpdate", caller |-> caller,
                      external |-> outcome,
                      raised |-> r.raised, value |-> r.value,
                      reply |-> IF caller = "ipc" THEN updateDownloadHandler(r)
                                ELSE NoReturn.reply]
    /\ UNCHANGED <<Env, checks, Counters>>

\* The update:install handler.
UpdateInstall ==
    /\ ~terminated
    /\ nInstallRequests < MaxInstallRequests
    /\ nInstallRequests' = nInstallRequests + 1
    /\ Commit(quitAndInstall(This))
    /\ ObserveOther(quitAndInstall(This), 0)
    /\ ret' = Did("update:install")
    /\ UNCHANGED <<Env, checks, downloads, nDownloaded, nChecks>>

\* cancelAutoInstall(), from the update:cancelAutoInstall handler.
CancelAutoInstall ==
    /\ ~terminated
    /\ LET s == cancelAutoInstall(This)
       IN  /\ Commit(s)
           /\ cycleStarts' = cycleStarts + Cardinality(StartsIn(s.sent))
           /\ instanceInstalls' = IF StartsIn(s.sent) # {} THEN 0 ELSE instanceInstalls
    /\ cancelledCountdown' = (cancelledCountdown
                              \/ (autoInstallTimer # Null /\ autoInstallCountdown > 0))
    /\ cancelledWait' = (cancelledWait \/ fallbackTimers # <<>>)
    /\ everCancelled' = TRUE
    /\ ret' = Did("cancelAutoInstall")
    /\ UNCHANGED <<Env, checks, downloads, Counters, autoInstalls, overlapped, manualCycle,
                   latestFallbackFired,
                   callTransitions>>

\* The armed interval t fires.
Tick(t) ==
    /\ ~terminated
    /\ t \in intervals
    /\ LET s == countdownTick(This)
       IN  /\ Commit(s)
           /\ ObserveOther(s, s.quitCalls - quitCalls)
    /\ ret' = Did("tick")
    /\ UNCHANGED <<Env, checks, downloads, Counters>>

\* The oldest pending staging timeout fires (equal delays: set first, due
\* first), once the interval that was running when it was set has ended.
FallbackFires ==
    /\ ~terminated
    /\ fallbackTimers # <<>>
    /\ Head(fallbackTimers) \notin blocked
    /\ LET w == Head(fallbackTimers)
           s == fallbackCallback([This EXCEPT !.fallbackTimers = Tail(@)], w)
       IN  /\ Commit(s)
           /\ autoInstalls' = autoInstalls
           /\ instanceInstalls' = IF StartsIn(s.sent) # {} THEN 0 ELSE instanceInstalls
           /\ cycleStarts' = cycleStarts + Cardinality(StartsIn(s.sent))
           /\ latestFallbackFired' =
                  (latestFallbackFired \/ (/\ w = nDownloaded
                                             /\ ~autoInstallCancelled
                                             /\ ~nativeSquirrelReady))
    /\ ret' = Did("fallback")
    /\ UNCHANGED <<Env, checks, downloads, Counters, cancelledCountdown, cancelledWait,
                   everCancelled, overlapped, manualCycle, callTransitions>>

\* The native updater emits update-downloaded (staging is done).  Its
\* listeners exist on darwin only.
NativeReady ==
    /\ ~terminated
    /\ platform = "darwin"
    /\ Commit(nativeUpdateDownloaded(This))
    /\ ObserveOther(nativeUpdateDownloaded(This), 0)
    /\ ret' = Did("native-update-downloaded")
    /\ UNCHANGED <<Env, checks, downloads, Counters>>

\* The external quit-and-restart takes effect.  On darwin it is deferred
\* until staging is done.
ProcessExits ==
    /\ ~terminated
    /\ quitCalls > 0
    /\ platform = "darwin" => nativeSquirrelReady
    /\ terminated' = TRUE
    /\ sent' = <<>>
    /\ ret' = Did("exit")
    /\ UNCHANGED <<platform, autoDownload, mainWindow, status, autoInstallTimer,
                   autoInstallCountdown, nativeSquirrelReady, squirrelFallbackTimer,
                   autoInstallCancelled, intervals, fallbackTimers, readyListeners,
                   quitCalls, safetyTimers, checks, downloads, version,
                   autoUpdaterChannel, otherVars, blocked, obsVars>>

\* A safety timeout of quitAndInstall() fires: app.quit().
SafetyTimeout ==
    /\ ~terminated
    /\ safetyTimers > 0
    /\ safetyTimers' = safetyTimers - 1
    /\ terminated' = TRUE
    /\ sent' = <<>>
    /\ ret' = Did("safety-timeout")
    /\ UNCHANGED <<platform, autoDownload, mainWindow, status, autoInstallTimer,
                   autoInstallCountdown, nativeSquirrelReady, squirrelFallbackTimer,
                   autoInstallCancelled, intervals, fallbackTimers, readyListeners,
                   quitCalls, checks, downloads, version,
                   autoUpdaterChannel, otherVars, blocked, obsVars>>

CheckOutcomes == {"null", "result"} \cup FailureMessages

DownloadOutcomes == {"done"} \cup FailureMessages

\* 'stable' | 'beta' | 'dev'
ChannelNames == {<<"s", "t", "a", "b", "l", "e">>, <<"b", "e", "t", "a">>,
                 <<"d", "e", "v">>}

Next ==
    \/ SetMainWindow
    \/ WindowDestroyed
    \/ \E c \in ChannelNames : SetChannel(c)
    \/ \E enable \in BOOLEAN : SetAutoDownload(enable)
    \/ OnCheckingForUpdate
    \/ OnUpdateAvailable
    \/ OnUpdateNotAvailable
    \/ OnDownloadProgress
    \/ OnError
    \/ OnUpdateDownloaded
    \/ \E caller \in {"ipc", "direct"} : CheckForUpdates(caller)
    \/ \E caller \in {"ipc", "direct"}, outcome \in CheckOutcomes :
           CheckSettles(caller, outcome)
    \/ \E caller \in {"ipc", "direct"} : DownloadUpdate(caller)
    \/ \E caller \in {"ipc", "direct"}, outcome \in DownloadOutcomes :
           DownloadSettles(caller, outcome)
    \/ UpdateInstall
    \/ CancelAutoInstall
    \/ \E t \in intervals : Tick(t)
    \/ FallbackFires
    \/ NativeReady
    \/ ProcessExits
    \/ SafetyTimeout

Spec == Init /\ [][Next]_vars

\* --------------------------------------------------------- specifications

\* The auto-install machinery: every action that reads or writes a timer, a
\* listener, the countdown or the install request.  The actions left out
\* (the status-only events, the check and the download) write status,
\* checks, downloads, callTransitions, sent and ret only.
InstallNext ==
    \/ SetMainWindow
    \/ WindowDestroyed
    \/ \E enable \in BOOLEAN : SetAutoDownload(enable)
    \/ OnUpdateDownloaded
    \/ UpdateInstall
    \/ CancelAutoInstall
    \/ \E t \in intervals : Tick(t)
    \/ FallbackFires
    \/ NativeReady
    \/ ProcessExits
    \/ SafetyTimeout

InstallSpec == Init /\ [][InstallNext]_vars

\* The check and the status stream: auto-download keeps its constructor
\* value, so an update-downloaded event arms nothing.
CheckNext ==
    \/ SetMainWindow
    \/ WindowDestroyed
    \/ OnCheckingForUpdate
    \/ OnUpdateAvailable
    \/ OnUpdateNotAvailable
    \/ OnDownloadProgress
    \/ OnError
    \/ OnUpdateDownloaded
    \/ \E caller \in {"ipc", "direct"} : CheckForUpdates(caller)
    \/ \E caller \in {"ipc", "direct"}, outcome \in CheckOutcomes :
           CheckSettles(caller, outcome)

CheckSpec == Init /\ [][CheckNext]_vars

\* The check alone, with the events the external updater emits during it,
\* and the external check call eventually settling: the promise of
\* autoUpdater.checkForUpdates() is taken to resolve or reject.
CheckLiveNext ==
    \/ SetMainWindow
    \/ WindowDestroyed
    \/ OnCheckingForUpdate
    \/ OnUpdateAvailable
    \/ OnUpdateNotAvailable
    \/ OnDownloadProgress
    \/ OnError
    \/ \E caller \in {"ipc", "direct"} : CheckForUpdates(caller)
    \/ \E caller \in {"ipc", "direct"}, outcome \in CheckOutcomes :
           CheckSettles(caller, outcome)

CheckLiveSpec ==
    /\ Init
    /\ [][CheckLiveNext]_vars
    /\ WF_vars(\E caller \in {"ipc", "direct"}, outcome \in CheckOutcomes :
                   CheckSettles(caller, outcome))

\* The download and the status stream: the events the external updater
\* emits for a download, or does not emit, while a call is in flight.
DownloadNext ==
    \/ SetMainWindow
    \/ WindowDestroyed
    \/ OnDownloadProgress
    \/ OnError
    \/ OnUpdateDownloaded
    \/ \E caller \in {"ipc", "direct"} : DownloadUpdate(caller)
    \/ \E caller \in {"ipc", "direct"}, outcome \in DownloadOutcomes :
           DownloadSettles(caller, outcome)

DownloadSpec == Init /\ [][DownloadNext]_vars

\* Quitting: the install requests and the countdowns that call
\* quitAndInstall(), the native-ready signal, and the two ways the process
\* ends.  A pending safety timeout fires: nothing in the program clears it,
\* and the timer queue runs for as long as the process lives.
QuitNext ==
    \/ \E enable \in BOOLEAN : SetAutoDownload(enable)
    \/ OnUpdateDownloaded
    \/ UpdateInstall
    \/ \E t \in intervals : Tick(t)
    \/ FallbackFires
    \/ NativeReady
    \/ ProcessExits
    \/ SafetyTimeout

QuitLiveSpec == Init /\ [][QuitNext]_vars /\ WF_vars(SafetyTimeout)

\* The auto-install with no cancellation and no install request: timers that
\* are armed fire; the native-ready signal may never come.
AutoInstallNext ==
    \/ \E enable \in BOOLEAN : SetAutoDownload(enable)
    \/ OnUpdateDownloaded
    \/ \E t \in intervals : Tick(t)
    \/ FallbackFires
    \/ NativeReady
    \/ ProcessExits
    \/ SafetyTimeout

AutoInstallLiveSpec ==
    /\ Init
    /\ [][AutoInstallNext]_vars
    /\ WF_vars(\E t \in intervals : Tick(t))
    /\ WF_vars(FallbackFires)

\* The countdown and the status stream: one check and one download at a
\* time, and the events of the external updater, while a staging wait or a
\* countdown is pending.
CountdownNext ==
    \/ SetAutoDownload(TRUE)
    \/ OnUpdateDownloaded
    \/ \E t \in intervals : Tick(t)
    \/ FallbackFires
    \/ OnCheckingForUpdate
    \/ OnDownloadProgress
    \/ OnError
    \/ ~CheckInFlight /\ CheckForUpdates("direct")
    \/ \E outcome \in CheckOutcomes : CheckSettles("direct", outcome)
    \/ DownloadsInFlight = 0 /\ ~CheckInFlight /\ DownloadUpdate("direct")
    \/ \E outcome \in DownloadOutcomes : DownloadSettles("direct", outcome)

CountdownSpec == Init /\ [][CountdownNext]_vars

\* The characters the enumerated versions are made of: a digit, the two
\* separators of a version and two letters.
VersionChars == {"1", ".", "-", "a", "b"}

\* The versions in the comment of detectChannel.
Examples == {<<"0", ".", "1", ".", "8", "-", "a", "l", "p", "h", "a", ".", "0">>,
             <<"1", ".", "0", ".", "0", "-", "b", "e", "t", "a", ".", "1">>,
             <<"1", ".", "0", ".", "0">>}

Versions == Examples \cup UNION {[1..n -> VersionChars] : n \in 0..MaxVersionLen}

\* The channel: the constructor derives it from the version of the
\* application, whatever that is; setChannel overwrites it.
ChannelInit == (\E v \in Versions : Constructed(v)) /\ RecoveryIdle /\ OAuthIdle

ChannelNext == \E c \in ChannelNames : SetChannel(c)

ChannelSpec == ChannelInit /\ [][ChannelNext]_vars

\* ---- the startup-recovery heuristics, applied to one failed startup

Texts == UNION {[1..n -> Atoms] : n \in 0..MaxTextLen}

\* A thrown value: null or undefined, a string, or an Error with its name.
StartupErrors ==
    {[kind |-> "null"]}
    \cup {[kind |-> "string", text |-> t] : t \in Texts}
    \cup {[kind |-> "Error", name |-> <<"word">>, message |-> t] : t \in Texts}
    \cup {[kind |-> "Error", name |-> <<"Run">>, message |-> <<a>>] : a \in Atoms}

\* The lines the gateway wrote to stderr: one with a signal, one without.
StderrLines == {<<" ", "config invalid", ":", " ", "word">>, <<"word", " ", "word">>}

StderrLogs == UNION {[1..n -> StderrLines] : n \in 0..MaxLines}

\* The caller asks whether to repair the configuration and start again.
ShouldAttemptConfigAutoRepair ==
    /\ repairDecision = "none"
    /\ repairDecision' = IF shouldAttemptConfigAutoRepair(startupError,
                                 startupStderrLines, alreadyAttempted)
                          THEN "true" ELSE "false"
    /\ sent' = <<>>
    /\ ret' = Did("shouldAttemptConfigAutoRepair")
    /\ UNCHANGED <<platform, autoDownload, mainWindow, terminated, status,
                   autoInstallTimer, autoInstallCountdown, nativeSquirrelReady,
                   squirrelFallbackTimer, autoInstallCancelled, intervals,
                   fallbackTimers, readyListeners, quitCalls, safetyTimers, checks,
                   downloads, version, autoUpdaterChannel, startupError,
                   startupStderrLines, alreadyAttempted, oauth, blocked, obsVars>>

RecoveryInit ==
    /\ Constructed(AppVersion)
    /\ platform = "other"
    /\ startupError \in StartupErrors
    /\ startupStderrLines \in StderrLogs
    /\ alreadyAttempted \in BOOLEAN
    /\ repairDecision = "none"
    /\ OAuthIdle

RecoveryNext == ShouldAttemptConfigAutoRepair

RecoverySpec == RecoveryInit /\ [][RecoveryNext]_vars

\* ---- the DeviceOAuthManager

OAuthStep(o) ==
    /\ oauth' = o
    /\ sent' = <<>>
    /\ ret' = Did("oauth")
    /\ UNCHANGED <<platform, autoDownload, mainWindow, terminated, status,
                   autoInstallTimer, autoInstallCountdown, nativeSquirrelReady,
                   squirrelFallbackTimer, autoInstallCancelled, intervals,
                   fallbackTimers, readyListeners, quitCalls, safetyTimers, checks,
                   downloads, version, autoUpdaterChannel, startupError,
                   startupStderrLines, alreadyAttempted, repairDecision, blocked,
                   obsVars>>

SetWindow ==
    /\ oauth.mainWindow # "live"
    /\ OAuthStep([oauth EXCEPT !.mainWindow = "live", !.last = NoStep])

StartFlow(provider) ==
    /\ Len(oauth.flows) < MaxFlows
    /\ OAuthStep([startFlow(oauth, provider) EXCEPT
                     !.last = [NoStep EXCEPT !.op = "startFlow",
                                             !.flow = Len(oauth.flows) + 1]])

StopFlow ==
    OAuthStep([MarkInert(stopFlow(oauth)) EXCEPT
                  !.last = [NoStep EXCEPT !.op = "stopFlow"]])

\* The device-code request of flow f settles.
CodeSettles(f, ok) ==
    /\ oauth.flows[f].pc = "requesting"
    /\ OAuthStep(IF ok THEN handleFlowResume(oauth, f) ELSE startFlowCatch(oauth, f))

\* The timer of flow f fires.
TimerFires(f, expired) ==
    /\ oauth.flows[f].pc = "timer"
    /\ OAuthStep(poll(oauth, f, expired))

\* The token request of flow f settles.
PollSettles(f, result) ==
    /\ oauth.flows[f].pc = "polling"
    /\ OAuthStep(pollResume(oauth, f, result))

\* The storage has saved the provider of flow f.
SaveSettles(f) ==
    /\ oauth.flows[f].pc = "saving"
    /\ OAuthStep(onSuccessResume(oauth, f))

OAuthNext ==
    \/ SetWindow
    \/ \E provider \in OAuthProviders : StartFlow(provider)
    \/ StopFlow
    \/ \E f \in DOMAIN oauth.flows, ok \in BOOLEAN : CodeSettles(f, ok)
    \/ \E f \in DOMAIN oauth.flows, expired \in BOOLEAN : TimerFires(f, expired)
    \/ \E f \in DOMAIN oauth.flows, result \in {"success", "error", "pending"} :
           PollSettles(f, result)
    \/ \E f \in DOMAIN oauth.flows : SaveSettles(f)

OAuthSpec == Init /\ [][OAuthNext]_vars

\* ------------------------------------------------------------------ claims

CountdownEvents(log) == {i \in DOMAIN log : IsCountdown(log[i])}

Ticks(log) == {i \in CountdownEvents(log) : log[i].data.seconds >= 0}

Last(seq) == seq[Len(seq)]

\* C1: once cancelAutoInstall() has stopped a running countdown, no step
\* publishes a countdown event with seconds >= 0, no interval is armed and no
\* tick calls quitAndInstall(), until the next update-downloaded event.
C1_CancelStopsCountdown ==
    [][(cancelledCountdown /\ cancelledCountdown')
        => /\ Ticks(sent') = {}
           /\ intervals' = {}
           /\ autoInstalls' = autoInstalls]_vars

\* A countdown that had ticked was cancelled, and the native-ready signal
\* came afterwards.
C1_Witness ==
    /\ cancelledCountdown
    /\ Len(published) >= 2
    /\ ret.op = "native-update-downloaded"

\* C2: on darwin, after a second update-downloaded event that came while the
\* first staging wait was pending, with no cancellation and no third event,
\* countdown ticks call quitAndInstall() at most once.
C2_NoDoubleInstall ==
    (platform = "darwin" /\ overlapped /\ ~everCancelled /\ nDownloaded = 2)
        => autoInstalls <= 1

\* C3: in a cycle whose fallback timer fired with no native-ready signal
\* before it (and no cancellation), the countdown has been started exactly
\* once since the cycle's update-downloaded event, whatever came after the
\* fallback.
C3_FallbackStartsOnce ==
    latestFallbackFired => cycleStarts = 1

\* C4: a native-ready signal that comes while a staging timeout is pending and
\* no cancellation stands starts the countdown in its own step and leaves no
\* staging timeout pending.
C4_ReadyDisarmsFallback ==
    [][(~nativeSquirrelReady /\ nativeSquirrelReady'
        /\ fallbackTimers # <<>> /\ ~autoInstallCancelled)
        => /\ StartsIn(sent') # {}
           /\ fallbackTimers' = <<>>]_vars

\* C5: once cancelAutoInstall() has been called with a staging wait pending,
\* no step starts a countdown or has a tick call quitAndInstall(), until the
\* next update-downloaded event.
C5_CancelStopsWait ==
    [][(cancelledWait /\ cancelledWait')
        => /\ StartsIn(sent') = {}
           /\ intervals' = {}
           /\ autoInstalls' = autoInstalls]_vars

\* The native-ready signal came after a pending wait was cancelled.
C5_Witness ==
    /\ cancelledWait
    /\ nativeSquirrelReady
    /\ ret.op = "native-update-downloaded"
    /\ cycleStarts = 0

\* C6: the seconds a countdown instance has published are the delay, then
\* one less each tick, never below 0; while its interval is armed the last
\* value is the seconds remaining and is above 0; once 0 is published no
\* interval is armed; and its ticks have called quitAndInstall() once if 0
\* is published and never otherwise.
C6_CountdownSequence ==
    /\ \A i \in DOMAIN published : published[i] = AUTO_INSTALL_DELAY_SECONDS - (i - 1)
    /\ Len(published) <= AUTO_INSTALL_DELAY_SECONDS + 1
    /\ intervals # {} => /\ published # <<>>
                         /\ Last(published) = autoInstallCountdown
                         /\ Last(published) > 0
    /\ (published # <<>> /\ Last(published) = 0) => intervals = {}
    /\ instanceInstalls = IF published # <<>> /\ Last(published) = 0 THEN 1 ELSE 0

\* A countdown ran from the delay to 0 and installed.
C6_Witness ==
    /\ Len(published) = AUTO_INSTALL_DELAY_SECONDS + 1
    /\ Last(published) = 0
    /\ instanceInstalls = 1
    /\ ret.op = "tick"

\* C7: at most one interval is armed, at most one staging timeout is pending
\* and at most one native-ready once-listener is registered.
C7_OneTimerEach ==
    /\ Cardinality(intervals) <= 1
    /\ Len(fallbackTimers) <= 1
    /\ Len(readyListeners) <= 1

\* The handler of an update-downloaded event started the countdown: the
\* seconds are the delay, {seconds: delay} is published and the interval
\* the object holds is armed.
StartedInStep ==
    /\ autoInstallCountdown' = AUTO_INSTALL_DELAY_SECONDS
    /\ \E i \in DOMAIN sent' :
           /\ IsCountdown(sent'[i])
           /\ sent'[i].data = CountdownEvent(AUTO_INSTALL_DELAY_SECONDS, FALSE)
    /\ autoInstallTimer' # Null
    /\ intervals' = {autoInstallTimer'}

\* C8 as claimed: off darwin every update-downloaded event starts the countdown
\* in its own step.
C8_EveryDownloadedStarts ==
    [][(platform = "other" /\ nDownloaded' = nDownloaded + 1) => StartedInStep]_vars

\* C8, amended: off darwin every update-downloaded event handled while
\* auto-download is enabled starts the countdown in its own step.
C8_DownloadedStartsWhenAutoDownload ==
    [][(platform = "other" /\ autoDownload /\ nDownloaded' = nDownloaded + 1)
        => StartedInStep]_vars

\* Off darwin an update-downloaded event has just started the countdown.
C8_Witness ==
    /\ platform = "other"
    /\ autoDownload
    /\ ret.op = "update-downloaded"
    /\ autoInstallCountdown = AUTO_INSTALL_DELAY_SECONDS
    /\ intervals # {}

\* C9: every cancelAutoInstall() call publishes exactly one countdown event,
\* {seconds: -1, cancelled: true}; every countdown event of any other step
\* has seconds >= 0 and no cancelled flag.
C9_CancelDistinguishable ==
    [][/\ ret'.op = "cancelAutoInstall"
          => /\ Cardinality(CountdownEvents(sent')) = 1
             /\ \A i \in CountdownEvents(sent') : sent'[i].data = CountdownEvent(-1, TRUE)
       /\ ret'.op # "cancelAutoInstall"
          => \A i \in CountdownEvents(sent') :
                 sent'[i].data.seconds >= 0 /\ ~sent'[i].data.cancelled]_vars

\* A running countdown has just been cancelled.
C9_Witness ==
    /\ ret.op = "cancelAutoInstall"
    /\ published # <<>>
    /\ Last(published) \in 1..(AUTO_INSTALL_DELAY_SECONDS - 1)
    /\ cancelledCountdown
    /\ sent = <<[channel |-> "update:auto-install-countdown",
                 data |-> CountdownEvent(-1, TRUE), delivered |-> TRUE]>>

\* C10: the step in which a checkForUpdates() call ends leaves a status that
\* is neither checking nor idle, and the update:check handler resolves (never
\* rejects) with that status; hence, the external call settling eventually,
\* a checking status is always followed by one that is neither.
C10_NeverStuckChecking ==
    /\ [][ret'.op = "checkForUpdates"
           => /\ status'.status \notin {"checking", "idle"}
              /\ ret'.caller = "ipc"
                 => ~ret'.reply.rejected /\ ret'.reply.status = status']_vars
    /\ (status.status = "checking") ~> (status.status \notin {"checking", "idle"})

\* An update:check request ended through the safety net: the external call
\* gave a result and the status was still checking.
C10_Witness ==
    /\ ret.op = "checkForUpdates"
    /\ ret.caller = "ipc"
    /\ ret.value = "updateInfo"
    /\ ret.reply.success
    /\ status = [IdleStatus EXCEPT !.status = "not-available"]

\* C11: the step in which a checkForUpdates() call ends after the external
\* check returned null leaves status error with the dev-mode message and
\* returns null without raising, whatever the status was; a call that ends
\* by raising records a message that is not the dev-mode message.
C11_NullResultIsDevModeError ==
    [][ret'.op = "checkForUpdates"
       => /\ ret'.value = "null"
             => /\ status'.status = "error"
                /\ status'.error = DevModeMessage
                /\ ~ret'.raised
          /\ ret'.raised => status'.error # DevModeMessage]_vars

\* The external check returned null after an update-downloaded event had
\* set the status to downloaded.
C11_Witness ==
    /\ ret.op = "checkForUpdates"
    /\ ret.value = "null"
    /\ ~ret.raised
    /\ nDownloaded > 0
    /\ status = [status |-> "error", info |-> "info", progress |-> "none",
                 error |-> DevModeMessage]

C13_OneTerminalTransition ==
    (ret.op = "checkForUpdates" /\ callTransitions # "uncounted")
        => callTransitions = "one"

\* C14: a step that calls quitAndInstall() arms one safety timeout if the
\* platform is darwin and nativeSquirrelReady is false, and none otherwise;
\* no other step arms one.  Hence off darwin no safety timeout is ever
\* pending or fires, and once staging is ready no call adds one.
C14_SafetyTimerIffStagingPending ==
    /\ [][safetyTimers' > safetyTimers
           <=> (quitCalls' > quitCalls /\ platform = "darwin" /\ ~nativeSquirrelReady)]_vars
    /\ [][safetyTimers' > safetyTimers => safetyTimers' = safetyTimers + 1]_vars
    /\ [](platform = "other" => safetyTimers = 0 /\ ret.op # "safety-timeout")
    /\ [][nativeSquirrelReady => safetyTimers' <= safetyTimers]_vars

\* On darwin a countdown expired while staging was pending (its call armed
\* the safety timeout); staging then became ready and an update:install
\* request called quitAndInstall() again, arming nothing.
C14_Witness ==
    /\ platform = "darwin"
    /\ nativeSquirrelReady
    /\ ret.op = "update:install"
    /\ quitCalls = 2
    /\ safetyTimers = 1
    /\ autoInstalls = 1

\* C15: on darwin, once quitAndInstall() has been called with staging not
\* ready, the process eventually terminates; a pending safety timeout goes
\* away only by firing, and the process ends only by the external quit
\* taking effect or by the safety timeout.
C15_EventuallyTerminates ==
    /\ (platform = "darwin" /\ quitCalls > 0 /\ ~nativeSquirrelReady) ~> terminated
    /\ [][safetyTimers' < safetyTimers => ret'.op = "safety-timeout"]_vars
    /\ [](terminated => ret.op \in {"exit", "safety-timeout"})

\* The external quit never took effect (staging never became ready) and the
\* safety timeout ended the process.
C15_Witness ==
    /\ platform = "darwin"
    /\ quitCalls > 0
    /\ ~nativeSquirrelReady
    /\ terminated
    /\ ret.op = "safety-timeout"

\* C16: the external quit-and-restart is requested at most once and at most
\* one safety timeout is ever pending, however many times quitAndInstall()
\* is called.
C16_QuitAndInstallIdempotent ==
    /\ quitCalls <= 1
    /\ safetyTimers <= 1

\* C17: a cancelAutoInstall() call made when no interval is armed, no
\* staging timeout is pending and no once-listener is registered publishes
\* nothing and leaves every field of the object as it was.
C17_CancelWithNothingPendingIsNoOp ==
    [][(/\ ret'.op = "cancelAutoInstall"
        /\ autoInstallTimer = Null /\ intervals = {}
        /\ squirrelFallbackTimer = Null /\ fallbackTimers = <<>>
        /\ readyListeners = <<>>)
       => /\ sent' = <<>>
          /\ UNCHANGED <<status, autoInstallTimer, autoInstallCountdown,
                         nativeSquirrelReady, squirrelFallbackTimer,
                         autoInstallCancelled>>]_vars

StatusEvents(log) == {i \in DOMAIN log : log[i].channel = "update:status-changed"}

\* C18: a step publishes at most one status-changed event, and exactly one
\* if it is an event handler or if the status changes; the event carries
\* the whole status the step leaves, in which every field is either kept
\* from the status before or set by the partial (none is erased); it is
\* sent within the step, and delivered when the window is live.
C18_EveryStatusChangePublished ==
    [][/\ Cardinality(StatusEvents(sent')) <= 1
       /\ (status' # status \/ ret'.op \in {"status-event", "update-downloaded"})
              => Cardinality(StatusEvents(sent')) = 1
       /\ \A i \in StatusEvents(sent') :
              /\ sent'[i].data = status'
              /\ sent'[i].delivered = (mainWindow = "live")
              /\ \A f \in {"info", "progress", "error"} :
                     status'[f] = status[f] \/ status'[f] # "none"]_vars

\* An update-available event came after an error: one event is published,
\* with the merged status (the tag and info of the partial, the error kept).
C18_Witness ==
    /\ ret.op = "status-event"
    /\ status.status = "available"
    /\ status.info = "info"
    /\ status.error \in FailureMessages
    /\ sent = <<[channel |-> "update:status-changed", data |-> status,
                 delivered |-> TRUE]>>

\* C19: the status holds an error message only when its tag is error, a
\* progress value only when it is downloading, and version info only when
\* it is available, not-available or downloaded.
C19_PayloadDeterminedByTag ==
    /\ status.error # "none" => status.status = "error"
    /\ status.progress # "none" => status.status = "downloading"
    /\ status.info # "none"
          => status.status \in {"available", "not-available", "downloaded"}

\* C20: the step in which a downloadUpdate() call ends by raising gives the
\* failure to the caller and leaves status error with that failure's
\* message.
C20_DownloadFailureMirrored ==
    [][(ret'.op = "downloadUpdate" /\ ret'.raised)
       => /\ ret'.value \in FailureMessages
          /\ status'.status = "error"
          /\ status'.error = ret'.value]_vars

\* C21: the step in which a downloadUpdate() call ends raises exactly when
\* the external download call raised, and then raises that same failure;
\* it leaves the status as it was and publishes nothing, on success as on
\* failure.
C21_DownloadOnlyPropagates ==
    [][ret'.op = "downloadUpdate"
       => /\ ret'.raised <=> ret'.external \in FailureMessages
          /\ ret'.raised => ret'.value = ret'.external
          /\ status' = status
          /\ sent' = <<>>]_vars

\* An update:download request failed after download-progress events: the
\* status is still downloading and the reply reports the failure.
C21_Witness ==
    /\ ret.op = "downloadUpdate"
    /\ ret.caller = "ipc"
    /\ ret.raised
    /\ ret.value = "sha512 checksum mismatch"
    /\ ~ret.reply.success
    /\ status.status = "downloading"
    /\ sent = <<>>

\* C22: a step in which a staging fallback timer fires while no native-ready
\* signal has come leaves the status as it was, publishes no status event
\* and raises nothing; if no cancellation stands, a countdown is running
\* after it, started by the step itself unless one was running already;
\* if a cancellation stands, the step publishes and arms nothing.
C22_FallbackIsNotAnError ==
    [][(ret'.op = "fallback" /\ ~nativeSquirrelReady)
       => /\ status' = status
          /\ StatusEvents(sent') = {}
          /\ ~ret'.raised
          /\ ~autoInstallCancelled
                => /\ autoInstallTimer' # Null
                   /\ intervals' = {autoInstallTimer'}
                   /\ autoInstallTimer = Null => StartedInStep
          /\ autoInstallCancelled => (sent' = <<>> /\ intervals' = intervals)]_vars

\* On darwin the fallback of the only staging wait fired with no native-ready
\* signal and started the countdown; the status is still downloaded.
C22_Witness ==
    /\ ret.op = "fallback"
    /\ platform = "darwin"
    /\ ~nativeSquirrelReady
    /\ ~autoInstallCancelled
    /\ nDownloaded = 1
    /\ status.status = "downloaded"
    /\ autoInstallCountdown = AUTO_INSTALL_DELAY_SECONDS
    /\ intervals # {}
    /\ cycleStarts = 1

\* v has the form <core>-<tag>.<n>, the tag being v[i+1..j-1]: a core of
\* digits and dots, a tag of letters, a number of digits.
IsForm(v, i, j) ==
    /\ 1 < i /\ i + 1 < j /\ j < Len(v)
    /\ \A k \in 1..(i - 1) : v[k] \in Digits \cup {"."}
    /\ v[i] = "-"
    /\ \A k \in (i + 1)..(j - 1) : v[k] \in Letters
    /\ v[j] = "."
    /\ \A k \in (j + 1)..Len(v) : v[k] \in Digits

HasForm(v) == \E i, j \in 1..Len(v) : IsForm(v, i, j)

FormTag(v) ==
    LET ij == CHOOSE ij \in (1..Len(v)) \X (1..Len(v)) : IsForm(v, ij[1], ij[2])
    IN  SubSeq(v, ij[1] + 1, ij[2] - 1)

\* The positions of v where a '-' is followed by a letter.
Labels(v) == {i \in 1..(Len(v) - 1) : v[i] = "-" /\ v[i + 1] \in Letters}

\* C23 as claimed: the channel the constructor derives from a version of the
\* form <core>-<tag>.<n> is tag, and from any other version it is latest.
C23_TagOnlyForFullForm ==
    ret.op = "none"
        => autoUpdaterChannel = IF HasForm(version) THEN FormTag(version) ELSE Latest

\* C23, amended: the channel the constructor derives from a version is the
\* whole run of letters after the first '-' that a letter follows, and
\* latest if there is no such '-'; so it is tag for a version of the form
\* <core>-<tag>.<n>.
C23_FirstLabelOrLatest ==
    ret.op = "none"
        => /\ Labels(version) = {} => autoUpdaterChannel = Latest
           /\ Labels(version) # {}
                 => LET i == CHOOSE i \in Labels(version) :
                                 \A k \in Labels(version) : i <= k
                    IN  \E j \in (i + 1)..Len(version) :
                            /\ autoUpdaterChannel = SubSeq(version, i + 1, j)
                            /\ \A k \in (i + 1)..j : version[k] \in Letters
                            /\ j = Len(version) \/ version[j + 1] \notin Letters
           /\ HasForm(version) => autoUpdaterChannel = FormTag(version)

\* The object was constructed for version 0.1.8-alpha.0: the channel is
\* alpha.
C23_Witness ==
    /\ ret.op = "none"
    /\ version = <<"0", ".", "1", ".", "8", "-", "a", "l", "p", "h", "a", ".", "0">>
    /\ HasForm(version)
    /\ autoUpdaterChannel = <<"a", "l", "p", "h", "a">>

\* The error or one of the stderr lines carries an invalid-config signal.
CarriesSignal ==
    \/ isInvalidConfigSignal(ErrorText(startupError))
    \/ \E i \in DOMAIN startupStderrLines :
           isInvalidConfigSignal(startupStderrLines[i])

\* C24: shouldAttemptConfigAutoRepair returns false whenever a repair was
\* already attempted in this startup flow, and otherwise returns true exactly
\* when the startup error or one of the stderr lines carries an
\* invalid-config signal.
C24_RepairAttemptedAtMostOnce ==
    repairDecision # "none" =>
        /\ alreadyAttempted => repairDecision = "false"
        /\ ~alreadyAttempted => (repairDecision = "true" <=> CarriesSignal)

\* A second failure of the flow with a signal in the error only, refused,
\* and a first failure with the same signal, granted.
C24_Witness ==
    /\ repairDecision = "false"
    /\ alreadyAttempted
    /\ startupError.kind = "Error"
    /\ isInvalidConfigSignal(startupError.message)
    /\ startupStderrLines # <<>>
    /\ \A i \in DOMAIN startupStderrLines :
           ~isInvalidConfigSignal(startupStderrLines[i])

\* C25: the step in which a checkForUpdates() call ends after the external
\* check returned a result forces the status to not-available, and publishes
\* it, if the status was checking or idle; if the status was anything else
\* the step leaves it as it was and publishes nothing.
C25_DefensiveFallback ==
    [][(ret'.op = "checkForUpdates" /\ ret'.external = "result")
       => IF status.status \in {"checking", "idle"}
          THEN /\ status' = [status EXCEPT !.status = "not-available"]
               /\ Len(sent') = 1
               /\ sent'[1].channel = "update:status-changed"
               /\ sent'[1].data = status'
          ELSE /\ status' = status
               /\ sent' = <<>>]_vars

\* A call ended with a result after an update-available event of the check
\* had set the status: the call left it alone.
C25_Witness ==
    /\ ret.op = "checkForUpdates"
    /\ ret.external = "result"
    /\ ~ret.raised
    /\ status.status = "available"
    /\ sent = <<>>

\* The handler of the n-th update-downloaded event has just started a
\* staging wait or a countdown.
StartedCycle(n) ==
    /\ ret.op = "update-downloaded"
    /\ nDownloaded = n
    /\ StartsIn(sent) # {} \/ squirrelFallbackTimer = n

\* The last step was the tick that published 0.
ExpiryTick == ret.op = "tick" /\ autoInstallCountdown <= 0

\* C26: with cancelAutoInstall() never called, after an update-downloaded
\* event that starts a staging wait or a countdown, unless a further
\* update-downloaded event arrives or an earlier install ends the process, a
\* tick eventually publishes 0, and that tick calls quitAndInstall(); timers
\* that are armed fire, the native-ready signal need not come.
C26_AutoInstallEventually ==
    /\ \A n \in 1..MaxDownloaded :
           StartedCycle(n) ~> (ExpiryTick \/ nDownloaded > n \/ terminated)
    /\ [][(ret'.op = "tick" /\ autoInstallCountdown' <= 0)
           => quitCalls' = quitCalls + 1]_vars

\* On darwin the native-ready signal never came: the staging timeout started
\* the countdown, which expired and installed.
C26_Witness ==
    /\ platform = "darwin"
    /\ ~nativeSquirrelReady
    /\ latestFallbackFired
    /\ ExpiryTick
    /\ quitCalls = 1
    /\ nDownloaded = 1

\* C27: the handler of an update-downloaded event starts a staging wait or a
\* countdown only if auto-download is enabled; with auto-download disabled it
\* sets the status to downloaded and arms no timer, and from then on, until
\* the next update-downloaded event, only an install request calls
\* quitAndInstall().
C27_ManualInstallOnly ==
    /\ [][(ret'.op = "update-downloaded"
           /\ (StartsIn(sent') # {} \/ Len(fallbackTimers') > Len(fallbackTimers)))
           => autoDownload]_vars
    /\ [][(ret'.op = "update-downloaded" /\ ~autoDownload)
           => /\ status'.status = "downloaded"
              /\ intervals' = intervals
              /\ fallbackTimers' = fallbackTimers
              /\ readyListeners' = readyListeners]_vars
    /\ [][(manualCycle /\ quitCalls' > quitCalls) => ret'.op = "update:install"]_vars

\* C28: once nativeSquirrelReady is set no step resets it; from then on the
\* handler of an update-downloaded event on darwin never starts a staging
\* wait and, with auto-download enabled, starts the countdown in the same
\* step, and no call of quitAndInstall() arms a safety timeout.
C28_StagingReadyIsMonotonic ==
    /\ [][nativeSquirrelReady => nativeSquirrelReady']_vars
    /\ [][(nativeSquirrelReady /\ platform = "darwin" /\ ret'.op = "update-downloaded")
           => /\ fallbackTimers' = fallbackTimers
              /\ readyListeners' = readyListeners
              /\ squirrelFallbackTimer' = squirrelFallbackTimer
              /\ autoDownload => /\ StartsIn(sent') # {}
                                 /\ autoInstallTimer' \in intervals'
                                 /\ autoInstallCountdown' = AUTO_INSTALL_DELAY_SECONDS]_vars
    /\ [][(nativeSquirrelReady /\ quitCalls' > quitCalls)
           => safetyTimers' = safetyTimers]_vars

\* On darwin the second update-downloaded event came after the native-ready
\* signal of the first cycle and a cancellation: its handler started the
\* countdown at once.
C28_Witness ==
    /\ platform = "darwin"
    /\ nativeSquirrelReady
    /\ everCancelled
    /\ ret.op = "update-downloaded"
    /\ nDownloaded = 2
    /\ StartsIn(sent) # {}
    /\ fallbackTimers = <<>>
    /\ readyListeners = <<>>

\* C29: while an interval of the countdown is armed the status is
\* downloaded, and the status is downloaded when a tick calls
\* quitAndInstall().
C29_CountdownOnlyWhileDownloaded ==
    /\ [](intervals # {} => status.status = "downloaded")
    /\ [][(ret'.op = "tick" /\ quitCalls' > quitCalls)
           => status.status = "downloaded" /\ status'.status = "downloaded"]_vars

\* The flows with a poll scheduled or in flight.
LiveLoops == {f \in DOMAIN oauth.flows : oauth.flows[f].pc \in {"timer", "polling"}}

\* C30: a flow that has been stopped by stopFlow() or superseded by a new
\* startFlow() issues no token poll, schedules no timer, does not run
\* onSuccess (token save, oauth:success) and emits no oauth:error; and at
\* most one flow has a poll scheduled or in flight.
C30_StoppedFlowIsInert ==
    /\ [][\A f \in DOMAIN oauth.flows :
              (oauth.flows[f].inert /\ oauth' # oauth /\ oauth'.last.flow = f)
              => /\ ~oauth'.last.polled
                 /\ ~oauth'.last.scheduled
                 /\ ~oauth'.last.saved
                 /\ ~oauth'.last.success
                 /\ ~oauth'.last.error]_vars
    /\ [](Cardinality(LiveLoops) <= 1)

====

